---- MODULE Spec2Model ----
(***************************************************************************)
(* poor_trader.screening.indicator: the indicator runners, the plain and   *)
(* the pickle-caching runner factories, and the indicator aggregator.      *)
(*                                                                         *)
(* Numbers.  Prices and volumes are integer multiples of the rounding      *)
(* quantum (10^-4, the precision of utils.roundn(x, 4)); a numeric cell of *)
(* a table is <<>> (NaN, "no value"), <<n>> (n quanta) or, before          *)
(* round_df, <<n, d>> (the exact quotient n/d quanta, d > 0).  A cell of a *)
(* Direction column is <<"LONG">>, <<"SHORT">> or <<"">>.                  *)
(*                                                                         *)
(* Tables.  A DataFrame is [index |-> <<labels>>, cols |-> <<<<name,       *)
(* cells>>, ...>>], columns in insertion order.  Index labels are dates    *)
(* (integers); the quote tables fed to the runners carry distinct labels.  *)
(* The quote column Open is read by no runner and is left out.             *)
(***************************************************************************)
EXTENDS Integers, Sequences, FiniteSets, TLC

\* files:  the persisted store, save path -> file content
\* call:   <<>> or <<the arguments of the last operation>>
\* ret:    <<>> or <<what the last operation returned, with its instrumentation>>
\* prev:   <<>> or <<call, ret and files as they were before the last operation>>
\* streak: per symbol, <<>> or <<the requests and computations of the calls
\*         made for the symbol since its quote series last changed>>
\* ncalls: the number of operations so far
\* market: the quote source of the aggregator, symbol -> quote table
VARIABLES files, call, ret, prev, streak, ncalls, market

vars == <<files, call, ret, prev, streak, ncalls, market>>

(***************************************************************************)
(* Bounds of the model.                                                    *)
(***************************************************************************)
\* rows of a quote table fed to a plain runner
MaxBars == 5
\* rows of a quote table fed to a caching handle
MaxLen == 2
\* calls of caching handles in one behaviour
MaxCalls == 2

-----------------------------------------------------------------------------
(***************************************************************************)
(* Cells and arithmetic (Python floats, idealised as exact quotients).     *)
(***************************************************************************)
NaN == <<>>

IsNull(c) == Len(c) = 0

Num(c) == c[1]

Den(c) == IF Len(c) = 2 THEN c[2] ELSE 1

Abs(n) == IF n < 0 THEN -n ELSE n

RAdd(a, b) == <<Num(a) * Den(b) + Num(b) * Den(a), Den(a) * Den(b)>>

RSub(a, b) == <<Num(a) * Den(b) - Num(b) * Den(a), Den(a) * Den(b)>>

RMul(a, k) == <<Num(a) * k, Den(a)>>

RDiv(a, k) == <<Num(a), Den(a) * k>>

\* Comparisons against NaN are False, as in numpy.
Gt(a, b) == ~IsNull(a) /\ ~IsNull(b) /\ Num(a) * Den(b) > Num(b) * Den(a)

Lt(a, b) == Gt(b, a)

Ge(a, b) == ~IsNull(a) /\ ~IsNull(b) /\ Num(a) * Den(b) >= Num(b) * Den(a)

Le(a, b) == Ge(b, a)

REq(a, b) == ~IsNull(a) /\ ~IsNull(b) /\ Num(a) * Den(b) = Num(b) * Den(a)

\* numpy's rounding of n/d quanta to whole quanta: to nearest, ties to even.
RoundHalfEven(n, d) ==
  LET q == n \div d
      r == n % d
  IN  IF 2 * r < d THEN q
      ELSE IF 2 * r > d THEN q + 1
      ELSE IF q % 2 = 0 THEN q ELSE q + 1

RoundCell(c) == IF IsNull(c) THEN NaN ELSE <<RoundHalfEven(Num(c), Den(c))>>

\* utils.roundn(x, 4)
roundn(c) == RoundCell(c)

-----------------------------------------------------------------------------
(***************************************************************************)
(* Tables.                                                                 *)
(***************************************************************************)
Table(index, cols) == [index |-> index, cols |-> cols]

ColumnNames(t) == [i \in 1..Len(t.cols) |-> t.cols[i][1]]

HasColumn(t, name) == \E i \in 1..Len(t.cols) : t.cols[i][1] = name

Column(t, name) ==
  t.cols[CHOOSE i \in 1..Len(t.cols) : t.cols[i][1] = name][2]

NRows(t) == Len(t.index)

\* df[name] = cells: replaces the column in place or appends it.
SetColumn(t, name, cells) ==
  IF HasColumn(t, name)
  THEN Table(t.index,
             [i \in 1..Len(t.cols) |->
                IF t.cols[i][1] = name THEN <<name, cells>> ELSE t.cols[i]])
  ELSE Table(t.index, Append(t.cols, <<name, cells>>))

AllNaN(n) == [i \in 1..n |-> NaN]

\* seq[i], 0-based, Python's negative positions counted from the end.
Iloc(seq, i) == IF i >= 0 THEN seq[i + 1] ELSE seq[Len(seq) + i + 1]

\* seq[a:b], 0-based, Python's slice semantics.
PySlice(seq, a, b) ==
  LET n  == Len(seq)
      lo == IF a < 0 THEN (IF n + a < 0 THEN 0 ELSE n + a) ELSE (IF a > n THEN n ELSE a)
      hi == IF b < 0 THEN (IF n + b < 0 THEN 0 ELSE n + b) ELSE (IF b > n THEN n ELSE b)
  IN  IF hi <= lo THEN <<>> ELSE [k \in 1..(hi - lo) |-> seq[lo + k]]

RECURSIVE SumCells(_)
SumCells(cells) ==
  IF Len(cells) = 0 THEN <<0, 1>>
  ELSE RAdd(cells[1], SumCells(Tail(cells)))

AnyNull(cells) == \E k \in 1..Len(cells) : IsNull(cells[k])

\* np.mean of a list of floats: NaN as soon as one of them is NaN.
Mean(cells) ==
  IF Len(cells) = 0 \/ AnyNull(cells) THEN NaN ELSE RDiv(SumCells(cells), Len(cells))

RECURSIVE MaxCell(_)
MaxCell(cells) ==
  IF Len(cells) = 1 THEN cells[1]
  ELSE LET m == MaxCell(Tail(cells)) IN IF Gt(cells[1], m) THEN cells[1] ELSE m

RECURSIVE MinCell(_)
MinCell(cells) ==
  IF Len(cells) = 1 THEN cells[1]
  ELSE LET m == MinCell(Tail(cells)) IN IF Lt(cells[1], m) THEN cells[1] ELSE m

NotNull(cells) == SelectSeq(cells, LAMBDA c : ~IsNull(c))

\* Series.rolling(period).mean(): defined once period values are in the window.
RollingMean(cells, period) ==
  [i \in 1..Len(cells) |->
     IF i < period THEN NaN ELSE Mean(PySlice(cells, i - period, i))]

\* utils.round_df: every numeric column rounded to the quantum.
round_df(t) ==
  Table(t.index,
        [i \in 1..Len(t.cols) |->
           IF t.cols[i][1] = "Direction" THEN t.cols[i]
           ELSE <<t.cols[i][1], [k \in 1..Len(t.cols[i][2]) |-> RoundCell(t.cols[i][2][k])]>>])

LONG == "LONG"

SHORT == "SHORT"

\* IndicatorRunner.add_direction
add_direction(t, long_condition, short_condition) ==
  SetColumn(t, "Direction",
            [i \in 1..NRows(t) |->
               IF long_condition[i] THEN <<LONG>>
               ELSE IF short_condition[i] THEN <<SHORT>> ELSE <<"">>])

\* Mutants of is_updated: a cache never found fresh; freshness by length alone.
is_updated_never(df_quotes, df_indicator) == FALSE

is_updated_by_length(df_quotes, df_indicator) ==
  IF df_indicator = <<>> THEN FALSE
  ELSE Len(df_quotes.index) = Len(df_indicator[1].index)

\* IndicatorRunner.is_updated; df_indicator is <<>> (None) or <<table>>.
is_updated(df_quotes, df_indicator) ==
  IF df_indicator = <<>> THEN FALSE
  ELSE df_quotes.index = df_indicator[1].index

-----------------------------------------------------------------------------
(***************************************************************************)
(* Runner configurations: the constructor arguments of each runner class.  *)
(***************************************************************************)
STDEV(name, period, field) ==
  [cls |-> "STDEV", name |-> name, period |-> period, field |-> field]

EMA(name, period, field) ==
  [cls |-> "EMA", name |-> name, period |-> period, field |-> field]

SMA(name, period, field) ==
  [cls |-> "SMA", name |-> name, period |-> period, field |-> field]

ATR(name, period) == [cls |-> "ATR", name |-> name, period |-> period]

ATRChannel(name, top, bottom, sma) ==
  [cls |-> "ATRChannel", name |-> name, top |-> top, bottom |-> bottom, sma |-> sma]

TrailingStops(name, multiplier, period) ==
  [cls |-> "TrailingStops", name |-> name, multiplier |-> multiplier, period |-> period]

DonchianChannel(name, high, low) ==
  [cls |-> "DonchianChannel", name |-> name, high |-> high, low |-> low]

MACD(name, fast, slow, signal) ==
  [cls |-> "MACD", name |-> name, fast |-> fast, slow |-> slow, signal |-> signal]

MACross(name, fast, slow) ==
  [cls |-> "MACross", name |-> name, fast |-> fast, slow |-> slow]

Volume(name, period) == [cls |-> "Volume", name |-> name, period |-> period]

TrendStrength(name, start, end, step) ==
  [cls |-> "TrendStrength", name |-> name, start |-> start, end |-> end, step |-> step]

BollingerBand(name, period, stdev) ==
  [cls |-> "BollingerBand", name |-> name, period |-> period, stdev |-> stdev]

RSI(name, period, field) ==
  [cls |-> "RSI", name |-> name, period |-> period, field |-> field]

\* '{}'.format(n) of an integer
Fmt(n) == ToString(n)

\* The separator of the format strings without one.
Sep_none == ""

\* The "_" between the parts of every unique_name format string.
Sep == "_"

\* The unique_name each __init__ hands to IndicatorRunner.__init__.
unique_name(c) ==
  CASE c.cls = "STDEV" -> "stdev" \o Sep \o c.field \o Sep \o Fmt(c.period)
    [] c.cls = "EMA" -> "ema" \o Sep \o c.field \o Sep \o Fmt(c.period)
    [] c.cls = "SMA" -> "sma" \o Sep \o c.field \o Sep \o Fmt(c.period)
    [] c.cls = "ATR" -> "atr" \o Sep \o Fmt(c.period)
    [] c.cls = "ATRChannel" ->
         "atr_channel" \o Sep \o Fmt(c.top) \o Sep \o Fmt(c.bottom) \o Sep \o Fmt(c.sma)
    [] c.cls = "TrailingStops" ->
         "trailing_stops" \o Sep \o Fmt(c.multiplier) \o Sep \o Fmt(c.period)
    [] c.cls = "DonchianChannel" ->
         "donchian_channel" \o Sep \o Fmt(c.high) \o Sep \o Fmt(c.low)
    [] c.cls = "MACD" ->
         "macd" \o Sep \o Fmt(c.fast) \o Sep \o Fmt(c.slow) \o Sep \o Fmt(c.signal)
    [] c.cls = "MACross" -> "ma_cross" \o Sep \o Fmt(c.fast) \o Sep \o Fmt(c.slow)
    [] c.cls = "Volume" -> "volume" \o Sep \o Fmt(c.period)
    [] c.cls = "TrendStrength" ->
         "trend_strength" \o Sep \o Fmt(c.start) \o Sep \o Fmt(c.end) \o Sep \o Fmt(c.step)
    [] c.cls = "BollingerBand" ->
         "bollinger_band" \o Sep \o Fmt(c.period) \o Sep \o Fmt(c.stdev)
    [] c.cls = "RSI" -> "rsi" \o Sep \o c.field \o Sep \o Fmt(c.period)

-----------------------------------------------------------------------------
(***************************************************************************)
(* The state one call threads through its nested runs: the persisted       *)
(* files, the instrumentation (requests to wrappers and computations of    *)
(* algorithms, per unique name), the write at which the process is         *)
(* interrupted (0: never) and how the call ended ("": still running or     *)
(* returned, "raise": an exception propagates, "killed": interrupted).     *)
(***************************************************************************)
NoTable == Table(<<>>, <<>>)

Count(f, u) == IF u \in DOMAIN f THEN f[u] ELSE 0

Bump(f, u) == IF u \in DOMAIN f THEN [f EXCEPT ![u] = @ + 1] ELSE f @@ (u :> 1)

CallState(fs, kill, chain) ==
  [files |-> fs, comp |-> <<>>, reqs |-> <<>>, kill |-> kill, halt |-> "",
   chained |-> chain]

\* The element of a one-element set; The({e(x) : x \in {v}}) is e with x
\* bound to the value of v, computed once.
The(S) == CHOOSE x \in S : TRUE

Result(st, out, aux) == [st |-> st, out |-> out, aux |-> aux]

Raised(st) == Result([st EXCEPT !.halt = "raise"], NoTable, <<>>)

Halted(r) == r.st.halt # ""

\* The algorithm of c runs past its is_updated check.
Computing(st, c) == [st EXCEPT !.comp = Bump(@, unique_name(c))]

-----------------------------------------------------------------------------
(***************************************************************************)
(* The runners.  factory is the runner's factory attribute: "plain"        *)
(* (IndicatorRunnerFactory) or "pickle" (PickleIndicatorRunnerFactory).    *)
(***************************************************************************)
RECURSIVE FactoryRun(_, _, _, _, _)

CAdd(a, b) == IF IsNull(a) \/ IsNull(b) THEN NaN ELSE RAdd(a, b)

CSub(a, b) == IF IsNull(a) \/ IsNull(b) THEN NaN ELSE RSub(a, b)

\* Position (1-based) of a label in an index of distinct labels.
PosOf(index, label) == CHOOSE i \in 1..Len(index) : index[i] = label

\* SMA.run
SMA_run(st, c, df_quotes, df_indicator) ==
  IF is_updated(df_quotes, df_indicator) THEN Result(st, df_indicator[1], <<>>)
  ELSE LET price == Column(df_quotes, c.field)
           sma   == RollingMean(price, c.period)
           df    == Table(df_quotes.index, << <<"SMA", sma>> >>)
           dir   == add_direction(df,
                                  [i \in 1..NRows(df) |-> Gt(price[i], sma[i])],
                                  [i \in 1..NRows(df) |-> Lt(price[i], sma[i])])
       IN  Result(Computing(st, c), round_df(dir), <<>>)

\* The loop of EMA.run; i is the 0-based row.
RECURSIVE EMALoop(_, _, _, _)
EMALoop(price, period, i, ema) ==
  IF i >= Len(price) THEN ema
  ELSE LET prev_ema == Iloc(ema, i - 1)
       IN  IF IsNull(prev_ema) THEN EMALoop(price, period, i + 1, ema)
           ELSE LET p == Iloc(price, i)
                    ema_value == IF IsNull(p) THEN NaN
                                 ELSE RDiv(RAdd(RMul(p, 2), RMul(prev_ema, period - 1)),
                                           period + 1)
                IN  EMALoop(price, period, i + 1, [ema EXCEPT ![i + 1] = ema_value])

\* The early return of EMA.run when the SMA has no defined row.
EMA_empty(df) == df

\* EMA.run from its seed on, r being what the run of its SMA returned.
EMA_seeded(c, df_quotes, r) ==
  LET n     == NRows(df_quotes)
      df    == Table(df_quotes.index, << <<"EMA", AllNaN(n)>> >>)
      sma   == Column(r.out, "SMA")
      rows  == {i \in 1..Len(sma) : ~IsNull(sma[i])}
  IN  IF Halted(r) THEN Result(r.st, NoTable, <<>>)
      ELSE IF rows = {} THEN Result(r.st, EMA_empty(df), <<>>)
      ELSE LET first == CHOOSE i \in rows : \A j \in rows : i <= j
               at    == PosOf(df.index, r.out.index[first])
               price == Column(df_quotes, c.field)
               seed  == [AllNaN(n) EXCEPT ![at] = sma[first]]
               ema   == EMALoop(price, c.period, 1, seed)
               full  == Table(df.index, << <<"EMA", ema>> >>)
               dir   == add_direction(full,
                          [i \in 1..n |-> Gt(price[i], ema[i])],
                          [i \in 1..n |-> Lt(price[i], ema[i])])
           IN  Result(r.st, round_df(dir), <<>>)

\* EMA.run
EMA_run(factory, st, c, symbol, df_quotes, df_indicator) ==
  IF is_updated(df_quotes, df_indicator) THEN Result(st, df_indicator[1], <<>>)
  ELSE The({EMA_seeded(c, df_quotes, r) :
              r \in {FactoryRun(factory, Computing(st, c), SMA("SMA", c.period, c.field),
                                symbol, df_quotes)}})

\* ATR.true_range: rolling(2) over the rows, NaN on the first row.
true_range(df_quotes) ==
  LET High  == Column(df_quotes, "High")
      Low   == Column(df_quotes, "Low")
      Close == Column(df_quotes, "Close")
  IN  [k \in 1..NRows(df_quotes) |->
         IF k < 2 THEN NaN
         ELSE LET a == roundn(<<Abs(Num(High[k]) - Num(Low[k]))>>)
                  b == roundn(<<Abs(Num(High[k]) - Num(Close[k - 1]))>>)
                  c == roundn(<<Abs(Num(Low[k]) - Num(Close[k - 1]))>>)
              IN  MaxCell(<<a, b, c>>)]

\* Mutant of ATRWindow: the window one row short.
ATRWindow_short(tr, i, period) == PySlice(tr, i, i + period - 1)

\* The window of true ranges ATR.run averages for its seed, from 0-based row i.
ATRWindow(tr, i, period) == PySlice(tr, i, i + period)

\* The loop of ATR.run; i is the 0-based start of the window.
RECURSIVE ATRLoop(_, _, _, _)
ATRLoop(tr, period, i, atrs) ==
  IF i >= 1 + Len(tr) - period THEN atrs
  ELSE IF IsNull(Iloc(tr, i)) THEN ATRLoop(tr, period, i + 1, atrs)
  ELSE LET last_index == i + period - 1
           trs      == ATRWindow(tr, i, period)
           prev_atr == Iloc(atrs, last_index - 1)
           atr      == IF IsNull(prev_atr) THEN Mean(trs)
                       ELSE IF IsNull(Iloc(tr, last_index)) THEN NaN
                       ELSE RDiv(RAdd(RMul(prev_atr, period - 1), Iloc(tr, last_index)),
                                 period)
       IN  ATRLoop(tr, period, i + 1, [atrs EXCEPT ![last_index + 1] = atr])

\* ATR.run; aux keeps the true ranges and the ATR column before round_df.
ATR_run(st, c, df_quotes, df_indicator) ==
  IF is_updated(df_quotes, df_indicator) THEN Result(st, df_indicator[1], <<>>)
  ELSE LET n   == NRows(df_quotes)
           tr  == true_range(df_quotes)
           raw == ATRLoop(tr, c.period, 0, AllNaN(n))
           df  == Table(df_quotes.index, << <<"ATR", raw>> >>)
           dir == add_direction(df, [i \in 1..n |-> FALSE], [i \in 1..n |-> FALSE])
       IN  Result(Computing(st, c), round_df(dir), [tr |-> tr, raw |-> raw])

\* ATRChannel.run from its own table on, after its three nested runs.
ATRChannel_bands(c, df_quotes, r1, r2, r3) ==
  LET n      == NRows(df_quotes)
      Mid    == Column(r3.out, "SMA")
      Top    == [i \in 1..n |-> CAdd(Mid[i], Column(r1.out, "ATR")[i])]
      Bottom == [i \in 1..n |-> CSub(Mid[i], Column(r2.out, "ATR")[i])]
      Close  == Column(df_quotes, "Close")
      df     == Table(df_quotes.index,
                      << <<"Top", Top>>, <<"Mid", Mid>>, <<"Bottom", Bottom>> >>)
      dir    == add_direction(df,
                  [i \in 1..n |-> Gt(Close[i], Top[i])],
                  [i \in 1..n |-> Lt(Close[i], Bottom[i])])
  IN  IF Halted(r3) THEN Result(r3.st, NoTable, <<>>)
      ELSE Result(r3.st, round_df(dir), <<>>)

\* ATRChannel.run from the run of its SMA on.
ATRChannel_sma(factory, c, symbol, df_quotes, r1, r2) ==
  IF Halted(r2) THEN Result(r2.st, NoTable, <<>>)
  ELSE The({ATRChannel_bands(c, df_quotes, r1, r2, r3) :
              r3 \in {FactoryRun(factory, r2.st, SMA("SMA", c.sma, "Close"),
                                 symbol, df_quotes)}})

\* ATRChannel.run from the run of its bottom ATR on.
ATRChannel_bottom(factory, c, symbol, df_quotes, r1) ==
  IF Halted(r1) THEN Result(r1.st, NoTable, <<>>)
  ELSE The({ATRChannel_sma(factory, c, symbol, df_quotes, r1, r2) :
              r2 \in {FactoryRun(factory, r1.st, ATR("ATR", c.bottom), symbol, df_quotes)}})

\* ATRChannel.run
ATRChannel_run(factory, st, c, symbol, df_quotes, df_indicator) ==
  IF is_updated(df_quotes, df_indicator) THEN Result(st, df_indicator[1], <<>>)
  ELSE The({ATRChannel_bottom(factory, c, symbol, df_quotes, r1) :
              r1 \in {FactoryRun(factory, Computing(st, c), ATR("ATR", c.top),
                                 symbol, df_quotes)}})

\* Mutant of Ratchet: the new candidate alone, the stop already set forgotten.
Ratchet_candidate(candidates, up) == candidates[1]

\* np.max (the sell stop) or np.min (the buy stop) of the new candidate and
\* the stop already set on the row, NaN left out.  The candidate is never
\* NaN on a row whose ATR is defined, so the except branch is not reached.
Ratchet(candidates, up) == IF up THEN MaxCell(candidates) ELSE MinCell(candidates)

\* One pass of the loop of TrailingStops.run at 0-based row i under regime
\* sign s: the stops it computes, and the regime after it.
TSStep(c, Close, atr, buys, sells, i, s) ==
  LET start      == i - c.period
      end        == i
      quotes     == PySlice(Close, start + 1, end + 1)
      next_close == Iloc(Close, i + 1)
      _atr       == Iloc(atr, i)
      max_price  == MaxCell(quotes)
      min_price  == MinCell(quotes)
      sell0      == RAdd(max_price, RMul(RMul(_atr, c.multiplier), s))
      buy0       == RAdd(min_price, RMul(RMul(_atr, c.multiplier), s))
      sellL      == NotNull(<<sell0, Iloc(sells, i)>>)
      buyL       == NotNull(<<buy0, Iloc(buys, i)>>)
      sell       == Ratchet(sellL, TRUE)
      buy        == Ratchet(buyL, FALSE)
  IN  [i |-> i, sign |-> s, sell0 |-> sell0, buy0 |-> buy0, sell |-> sell, buy |-> buy,
       next_close |-> next_close,
       after |-> IF s < 0 THEN (IF Le(next_close, sell) THEN 1 ELSE s)
                 ELSE (IF Ge(next_close, buy) THEN -1 ELSE s)]

\* The loop of TrailingStops.run.  chained: whether the assignment
\* df.loc[label]['SellStops'] = sell reaches df (df.loc[label] a view of the
\* single-dtype frame) or a temporary copy of the row; pandas decides.
RECURSIVE TSLoop(_, _, _, _, _, _)
TSLoop(c, Close, atr, chained, i, acc) ==
  IF i >= Len(Close) - 1 THEN acc
  ELSE IF IsNull(Iloc(atr, i)) THEN TSLoop(c, Close, atr, chained, i + 1, acc)
  ELSE LET step == TSStep(c, Close, atr, acc.buys, acc.sells, i, acc.sign)
           sells == IF step.sign < 0 /\ chained
                    THEN [acc.sells EXCEPT ![i + 2] = step.sell] ELSE acc.sells
           buys  == IF step.sign >= 0 /\ chained
                    THEN [acc.buys EXCEPT ![i + 2] = step.buy] ELSE acc.buys
       IN  TSLoop(c, Close, atr, chained, i + 1,
                  [buys |-> buys, sells |-> sells, sign |-> step.after,
                   trace |-> Append(acc.trace, step)])

\* TrailingStops.run after its loop, acc being what the loop left.
TrailingStops_table(df_quotes, r, acc) ==
  LET n     == NRows(df_quotes)
      Close == Column(df_quotes, "Close")
      df    == Table(df_quotes.index,
                     << <<"BuyStops", acc.buys>>, <<"SellStops", acc.sells>> >>)
      dir   == add_direction(df,
                 [i \in 1..n |-> Ge(Close[i], acc.buys[i])],
                 [i \in 1..n |-> Le(Close[i], acc.sells[i])])
  IN  Result(r.st, round_df(dir), acc.trace)

\* TrailingStops.run from its loop on, r being what the run of its ATR returned.
TrailingStops_stops(c, chained, df_quotes, r) ==
  IF Halted(r) THEN Result(r.st, NoTable, <<>>)
  ELSE The({TrailingStops_table(df_quotes, r, acc) :
              acc \in {TSLoop(c, Column(df_quotes, "Close"), Column(r.out, "ATR"),
                              chained, 0,
                              [buys |-> AllNaN(NRows(df_quotes)),
                               sells |-> AllNaN(NRows(df_quotes)), sign |-> -1,
                               trace |-> <<>>])}})

\* TrailingStops.run; aux keeps the passes of the loop.
TrailingStops_run(factory, st, c, symbol, df_quotes, df_indicator) ==
  IF is_updated(df_quotes, df_indicator) THEN Result(st, df_indicator[1], <<>>)
  ELSE The({TrailingStops_stops(c, st.chained, df_quotes, r) :
              r \in {FactoryRun(factory, Computing(st, c), ATR("ATR", c.period),
                                symbol, df_quotes)}})

\* The quanta of one unit: utils.roundn(x, 4) keeps four decimals.
QuantaPerUnit == 10000

\* A whole number n as a cell: the 1 and 0 of np.where(..., 1, 0) and the
\* percentages of TrendStrength.
Units(n) == <<n * QuantaPerUnit>>

\* Series.shift(1)
Shift(cells) == [i \in 1..Len(cells) |-> IF i = 1 THEN NaN ELSE cells[i - 1]]

\* np.where(np.logical_and(a, b), 1, 0)
WhereBoth(a, b) == [i \in 1..Len(a) |-> IF a[i] /\ b[i] THEN Units(1) ELSE Units(0)]

\* df['MACD'] = fast_ema.EMA - slow_ema.EMA, on an empty frame with the
\* quotes' index.
MACD_column(df_quotes, r1, r2) ==
  Table(df_quotes.index,
        << <<"MACD", [i \in 1..NRows(df_quotes) |->
                        CSub(Column(r1.out, "EMA")[i], Column(r2.out, "EMA")[i])]>> >>)

\* MACD.run from its Signal column on, r being what the run of the signal
\* EMA returned.
MACD_table(df, r) ==
  LET n      == NRows(df)
      macd   == Column(df, "MACD")
      signal == Column(r.out, "EMA")
      up     == WhereBoth([i \in 1..n |-> Gt(macd[i], signal[i])],
                          [i \in 1..n |-> Le(Shift(macd)[i], Shift(signal)[i])])
      down   == WhereBoth([i \in 1..n |-> Lt(macd[i], signal[i])],
                          [i \in 1..n |-> Le(Shift(signal)[i], Shift(macd)[i])])
      full   == SetColumn(SetColumn(SetColumn(df, "Signal", signal),
                                    "MACDCrossoverSignal", up),
                          "SignalCrossoverMACD", down)
      dir    == add_direction(full, [i \in 1..n |-> up[i] = Units(1)],
                              [i \in 1..n |-> down[i] = Units(1)])
  IN  IF Halted(r) THEN Result(r.st, NoTable, <<>>)
      ELSE Result(r.st, round_df(dir), <<>>)

\* MACD.run from the run of its signal EMA on: an EMA of field 'MACD',
\* run for the symbol on the frame that holds the MACD column.
MACD_signal(factory, c, symbol, df_quotes, r1, r2) ==
  IF Halted(r2) THEN Result(r2.st, NoTable, <<>>)
  ELSE The({MACD_table(MACD_column(df_quotes, r1, r2), r3) :
              r3 \in {FactoryRun(factory, r2.st, EMA("EMA", c.signal, "MACD"), symbol,
                                 MACD_column(df_quotes, r1, r2))}})

\* MACD.run from the run of its slow EMA on.
MACD_slow(factory, c, symbol, df_quotes, r1) ==
  IF Halted(r1) THEN Result(r1.st, NoTable, <<>>)
  ELSE The({MACD_signal(factory, c, symbol, df_quotes, r1, r2) :
              r2 \in {FactoryRun(factory, r1.st, EMA("EMA", c.slow, "Close"),
                                 symbol, df_quotes)}})

\* MACD.run
MACD_run(factory, st, c, symbol, df_quotes, df_indicator) ==
  IF is_updated(df_quotes, df_indicator) THEN Result(st, df_indicator[1], <<>>)
  ELSE The({MACD_slow(factory, c, symbol, df_quotes, r1) :
              r1 \in {FactoryRun(factory, Computing(st, c), EMA("EMA", c.fast, "Close"),
                                 symbol, df_quotes)}})

\* MACross.run from its own table on, after its two nested runs.
MACross_table(df_quotes, r1, r2) ==
  LET n    == NRows(df_quotes)
      fast == Column(r1.out, "SMA")
      slow == Column(r2.out, "SMA")
      sxf  == WhereBoth([i \in 1..n |-> Le(fast[i], slow[i])],
                        [i \in 1..n |-> Gt(Shift(fast)[i], Shift(slow)[i])])
      fxs  == WhereBoth([i \in 1..n |-> Ge(fast[i], slow[i])],
                        [i \in 1..n |-> Gt(Shift(slow)[i], Shift(fast)[i])])
      df   == Table(df_quotes.index,
                    << <<"FastSMA", fast>>, <<"SlowSMA", slow>>,
                       <<"SlowCrossoverFast", sxf>>, <<"FastCrossoverSlow", fxs>> >>)
      dir  == add_direction(df, [i \in 1..n |-> Gt(fast[i], slow[i])],
                            [i \in 1..n |-> Gt(slow[i], fast[i])])
  IN  IF Halted(r2) THEN Result(r2.st, NoTable, <<>>)
      ELSE Result(r2.st, round_df(dir), <<>>)

\* MACross.run from the run of its slow SMA on.
MACross_slow(factory, c, symbol, df_quotes, r1) ==
  IF Halted(r1) THEN Result(r1.st, NoTable, <<>>)
  ELSE The({MACross_table(df_quotes, r1, r2) :
              r2 \in {FactoryRun(factory, r1.st, SMA("SMA", c.slow, "Close"),
                                 symbol, df_quotes)}})

\* MACross.run
MACross_run(factory, st, c, symbol, df_quotes, df_indicator) ==
  IF is_updated(df_quotes, df_indicator) THEN Result(st, df_indicator[1], <<>>)
  ELSE The({MACross_slow(factory, c, symbol, df_quotes, r1) :
              r1 \in {FactoryRun(factory, Computing(st, c), SMA("SMA", c.fast, "Close"),
                                 symbol, df_quotes)}})

\* [x for x in range(start, end, step)] + [end], for step >= 1
TrendStrength_columns(c) ==
  LET k == IF c.end > c.start THEN ((c.end - c.start - 1) \div c.step) + 1 ELSE 0
  IN  Append([i \in 1..k |-> c.start + (i - 1) * c.step], c.end)

\* 'SMA{}'.format(col)
SMAName(col) == "SMA" \o Fmt(col)

\* The loop of TrendStrength.run over its columns, from the k-th on.
RECURSIVE TrendStrength_smas(_, _, _, _, _, _, _)
TrendStrength_smas(factory, st, symbol, df_quotes, columns, k, df) ==
  IF k > Len(columns) \/ st.halt # "" THEN Result(st, df, <<>>)
  ELSE The({TrendStrength_smas(factory, r.st, symbol, df_quotes, columns, k + 1,
                               IF Halted(r) THEN df
                               ELSE SetColumn(df, SMAName(columns[k]), Column(r.out, "SMA"))) :
              r \in {FactoryRun(factory, st, SMA("SMA", columns[k], "Close"),
                                symbol, df_quotes)}})

\* round(100 * count / col_size) of TrendStrength.run, in whole percents.
Percent(count, col_size) == RoundHalfEven(100 * count, col_size)

\* TrendStrength.run from df_comparison on, r holding the frame of SMA
\* columns.  df.lt(Close) is False where the SMA is NaN.  The second
\* filter(like='SMA') also takes the column CountSMABelowPrice, whose
\* value equals False where it is 0.
TrendStrength_table(c, df_quotes, r) ==
  LET n        == NRows(df_quotes)
      columns  == TrendStrength_columns(c)
      col_size == Len(columns)
      Close    == Column(df_quotes, "Close")
      High     == Column(df_quotes, "High")
      sma(k)   == Column(r.out, SMAName(columns[k]))
      below(i) == Cardinality({k \in 1..col_size : Lt(sma(k)[i], Close[i])})
      BelowPrice == [i \in 1..n |-> Percent(below(i), col_size)]
      falses(i)  == (col_size - below(i)) + (IF BelowPrice[i] = 0 THEN 1 ELSE 0)
      AbovePrice == [i \in 1..n |-> Percent(-falses(i), col_size)]
      strength   == [i \in 1..n |-> Units(BelowPrice[i] + AbovePrice[i])]
      lowest     == [i \in 1..n |->
                       LET present == NotNull([k \in 1..col_size |-> sma(k)[i]])
                       IN  IF Len(present) = 0 THEN NaN ELSE MinCell(present)]
      df  == SetColumn(r.out, "TrendStrength", strength)
      dir == add_direction(df,
               [i \in 1..n |-> Ge(strength[i], Units(100))
                                 /\ Lt(Shift(strength)[i], Units(100))],
               [i \in 1..n |-> Le(strength[i], Units(-100)) /\ Lt(High[i], lowest[i])])
  IN  IF Halted(r) THEN Result(r.st, NoTable, <<>>)
      ELSE Result(r.st, round_df(dir), <<>>)

\* TrendStrength.run
TrendStrength_run(factory, st, c, symbol, df_quotes, df_indicator) ==
  IF is_updated(df_quotes, df_indicator) THEN Result(st, df_indicator[1], <<>>)
  ELSE The({TrendStrength_table(c, df_quotes, r) :
              r \in {TrendStrength_smas(factory, Computing(st, c), symbol, df_quotes,
                                        TrendStrength_columns(c), 1,
                                        Table(df_quotes.index, <<>>))}})

\* runner.run(symbol, df_quotes, df_indicator), by the runner's class.
RunnerRun(factory, st, c, symbol, df_quotes, df_indicator) ==
  CASE c.cls = "SMA" -> SMA_run(st, c, df_quotes, df_indicator)
    [] c.cls = "EMA" -> EMA_run(factory, st, c, symbol, df_quotes, df_indicator)
    [] c.cls = "ATR" -> ATR_run(st, c, df_quotes, df_indicator)
    [] c.cls = "ATRChannel" -> ATRChannel_run(factory, st, c, symbol, df_quotes, df_indicator)
    [] c.cls = "TrailingStops" ->
         TrailingStops_run(factory, st, c, symbol, df_quotes, df_indicator)
    [] c.cls = "MACD" -> MACD_run(factory, st, c, symbol, df_quotes, df_indicator)
    [] c.cls = "MACross" -> MACross_run(factory, st, c, symbol, df_quotes, df_indicator)
    [] c.cls = "TrendStrength" ->
         TrendStrength_run(factory, st, c, symbol, df_quotes, df_indicator)

-----------------------------------------------------------------------------
(***************************************************************************)
(* The pickle cache.  A file is the pickle of a table, or what an          *)
(* interrupted DataFrame.to_pickle left of it (to_pickle opens the target  *)
(* for writing, which truncates it, and dumps into it).                    *)
(***************************************************************************)
Pickled(df) == [complete |-> TRUE, tbl |-> df]

Partial == [complete |-> FALSE, tbl |-> NoTable]

\* PickleIndicatorRunnerWrapper.get_save_path, below the factory's dir_path
get_save_path(c, symbol) == <<unique_name(c), symbol>>

Exists(fs, path) == path \in DOMAIN fs

Put(fs, path, content) ==
  IF path \in DOMAIN fs THEN [fs EXCEPT ![path] = content] ELSE fs @@ (path :> content)

\* Mutant of to_pickle: the result is never persisted.
to_pickle_lost(st, path, df) == st

\* df.to_pickle(save_path); the process may be interrupted inside it.
to_pickle(st, path, df) ==
  IF st.kill = 1
  THEN [st EXCEPT !.files = Put(@, path, Partial), !.halt = "killed", !.kill = 0]
  ELSE [st EXCEPT !.files = Put(@, path, Pickled(df)),
                  !.kill = IF @ > 0 THEN @ - 1 ELSE 0]

\* Mutant of WrappedRunnerFactory: the runner keeps the plain factory of
\* IndicatorRunner.__init__.
WrappedRunnerFactory_plain == "plain"

\* The factory PickleIndicatorRunnerFactory.create gives the runner it wraps.
WrappedRunnerFactory == "pickle"

\* PickleIndicatorRunnerWrapper.update from to_pickle on, r being what
\* runner.run returned.
Wrapper_save(c, symbol, r) ==
  IF Halted(r) THEN r
  ELSE The({IF st2.halt # "" THEN Result(st2, NoTable, <<>>) ELSE Result(st2, r.out, r.aux) :
              st2 \in {to_pickle(r.st, get_save_path(c, symbol), r.out)}})

\* PickleIndicatorRunnerWrapper.update
Wrapper_update(st, c, symbol, df_quotes, df_indicator) ==
  IF is_updated(df_quotes, df_indicator) THEN Result(st, df_indicator[1], <<>>)
  ELSE The({Wrapper_save(c, symbol, r) :
              r \in {RunnerRun(WrappedRunnerFactory, st, c, symbol, df_quotes, df_indicator)}})

\* PickleIndicatorRunnerWrapper.run; pd.read_pickle raises on a partial file.
Wrapper_run(st, c, symbol, df_quotes, df_indicator) ==
  LET path == get_save_path(c, symbol)
      st1  == [st EXCEPT !.reqs = Bump(@, unique_name(c))]
  IN  IF st.halt # "" THEN Result(st, NoTable, <<>>)
      ELSE IF Exists(st.files, path) /\ ~st.files[path].complete THEN Raised(st1)
      ELSE Wrapper_update(st1, c, symbol, df_quotes,
                          IF Exists(st.files, path) THEN <<st.files[path].tbl>>
                          ELSE df_indicator)

\* factory.create(cls, ...).run(symbol, df_quotes): IndicatorRunnerFactory.create
\* returns the runner, PickleIndicatorRunnerFactory.create its wrapper.
FactoryRun(factory, st, c, symbol, df_quotes) ==
  IF factory = "plain" THEN RunnerRun("plain", st, c, symbol, df_quotes, <<>>)
  ELSE Wrapper_run(st, c, symbol, df_quotes, <<>>)

-----------------------------------------------------------------------------
(***************************************************************************)
(* Inputs.                                                                 *)
(***************************************************************************)
QuoteTable(index, bars) ==
  Table(index,
        << <<"High",   [i \in 1..Len(bars) |-> <<bars[i].High>>]>>,
           <<"Low",    [i \in 1..Len(bars) |-> <<bars[i].Low>>]>>,
           <<"Close",  [i \in 1..Len(bars) |-> <<bars[i].Close>>]>>,
           <<"Volume", [i \in 1..Len(bars) |-> <<bars[i].Volume>>]>> >>)

Bars ==
  { [High |-> 3, Low |-> 1, Close |-> 2, Volume |-> 5],
    [High |-> 6, Low |-> 4, Close |-> 5, Volume |-> 9],
    [High |-> 9, Low |-> 7, Close |-> 9, Volume |-> 2] }

SeqsUpTo(S, n) == UNION {[1..k -> S] : k \in 0..n}

\* Quote series of consecutive dates 1..n, for the plain runners.
PlainQuotes == {QuoteTable([i \in 1..Len(b) |-> i], b) : b \in SeqsUpTo(Bars, MaxBars)}

Dates == {1, 2, 3}

\* The bar the quote source holds for a date.
BarOf(d) == [High |-> 2 * d + 2, Low |-> d, Close |-> 2 * d + 1, Volume |-> 7 - d]

Distinct(seq) == \A i, j \in 1..Len(seq) : i # j => seq[i] # seq[j]

\* Indexes a caller may pass: any order, no date twice.
Indexes == {ix \in SeqsUpTo(Dates, MaxLen) : Distinct(ix)}

QuotesOf(ix) == QuoteTable(ix, [i \in 1..Len(ix) |-> BarOf(ix[i])])

CacheQuotes == {QuotesOf(ix) : ix \in Indexes}

CacheSymbols == {"AAA"}

CacheConfigs ==
  { SMA("SMA", 2, "Close"), EMA("EMA", 2, "Close"), ATR("ATR", 1),
    ATRChannel("ATRChannel", 1, 1, 2) }

PlainConfigs ==
  {SMA("SMA", p, "Close") : p \in 1..3} \cup {EMA("EMA", p, "Close") : p \in 1..3}
    \cup {ATR("ATR", p) : p \in 1..3}
    \cup {ATRChannel("ATRChannel", 2, 1, 2), ATRChannel("ATRChannel", 1, 1, 3)}
    \cup {TrailingStops("TrailingStops", m, p) : m \in 1..2, p \in 1..2}

-----------------------------------------------------------------------------
(***************************************************************************)
(* The runners each run requests from its factory.                         *)
(***************************************************************************)
Deps(c) ==
  CASE c.cls = "EMA" -> {SMA("SMA", c.period, c.field)}
    [] c.cls = "ATRChannel" ->
         {ATR("ATR", c.top), ATR("ATR", c.bottom), SMA("SMA", c.sma, "Close")}
    [] c.cls = "TrailingStops" -> {ATR("ATR", c.period)}
    [] c.cls = "MACD" ->
         {EMA("EMA", c.fast, "Close"), EMA("EMA", c.slow, "Close"),
          EMA("EMA", c.signal, "MACD")}
    [] c.cls = "MACross" -> {SMA("SMA", c.fast, "Close"), SMA("SMA", c.slow, "Close")}
    [] c.cls = "TrendStrength" ->
         {SMA("SMA", TrendStrength_columns(c)[k], "Close") :
            k \in 1..Len(TrendStrength_columns(c))}
    [] OTHER -> {}

RECURSIVE AllDeps(_)
AllDeps(c) == {c} \cup UNION {AllDeps(d) : d \in Deps(c)}

-----------------------------------------------------------------------------
(***************************************************************************)
(* Spec: handles of the caching factory, run against one store.            *)
(***************************************************************************)
Merge(f, g) == [u \in DOMAIN f \cup DOMAIN g |-> Count(f, u) + Count(g, u)]

Returned(r) ==
  [halt |-> r.st.halt, out |-> r.out, comp |-> r.st.comp, reqs |-> r.st.reqs]

StreakAfter(old, c, q, r) ==
  IF old # <<>> /\ old[1].quotes = q
  THEN << [quotes |-> q, reqs |-> Merge(old[1].reqs, r.st.reqs),
           comp |-> Merge(old[1].comp, r.st.comp),
           parents |-> old[1].parents \cup {unique_name(c)}] >>
  ELSE << [quotes |-> q, reqs |-> r.st.reqs, comp |-> r.st.comp,
           parents |-> {unique_name(c)}] >>

\* What pandas may do with the chained assignments of TrailingStops.run; no
\* other runner makes one.
ChainedOutcomes(c) == IF c.cls = "TrailingStops" THEN BOOLEAN ELSE {TRUE}

Init ==
  /\ files = <<>>
  /\ call = <<>>
  /\ ret = <<>>
  /\ prev = <<>>
  /\ streak = [s \in CacheSymbols |-> <<>>]
  /\ ncalls = 0
  /\ market = <<>>

\* PickleIndicatorRunnerFactory.create(cls, ...).run(symbol, df_quotes), the
\* process running to the end of the call.
HandleRun(c, symbol, q, kill) ==
  /\ ncalls < MaxCalls
  /\ \E chained \in ChainedOutcomes(c) :
     \E r \in {Wrapper_run(CallState(files, kill, chained), c, symbol, q, <<>>)} :
           /\ (kill = 0) = (r.st.halt # "killed")
           /\ files' = r.st.files
           /\ call' = <<[cfg |-> c, symbol |-> symbol, quotes |-> q]>>
           /\ ret' = <<Returned(r)>>
           /\ prev' = <<[call |-> call, ret |-> ret, files |-> files]>>
           /\ streak' = [streak EXCEPT ![symbol] = StreakAfter(@, c, q, r)]
  /\ ncalls' = ncalls + 1
  /\ UNCHANGED market

Run == \E c \in CacheConfigs, s \in CacheSymbols, q \in CacheQuotes : HandleRun(c, s, q, 0)

Next == Run

Spec == Init /\ [][Next]_vars

\* The process is interrupted inside the kill-th to_pickle of the call.
Interrupted ==
  \E c \in CacheConfigs, s \in CacheSymbols, q \in CacheQuotes :
    \E kill \in 1..Cardinality(AllDeps(c)) : HandleRun(c, s, q, kill)

NextCrash == Run \/ Interrupted

SpecCrash == Init /\ [][NextCrash]_vars

-----------------------------------------------------------------------------
(***************************************************************************)
(* Claims about the caching handles.                                       *)
(***************************************************************************)
Called == call # <<>>

LastPath == get_save_path(call[1].cfg, call[1].symbol)

LastName == unique_name(call[1].cfg)

SameCallTwice ==
  /\ Called
  /\ prev[1].call = call
  /\ prev[1].ret[1].halt = ""

\* C1: when a handle's run is called twice in a row with the same symbol and
\* the same quote series, the second call returns the table the first
\* returned, computes the wrapped algorithm zero times, and leaves the file
\* of (unique name, symbol) as it was.
C1_SecondRunReuses ==
  SameCallTwice =>
    /\ ret[1].halt = ""
    /\ ret[1].out = prev[1].ret[1].out
    /\ Count(ret[1].comp, LastName) = 0
    /\ Exists(prev[1].files, LastPath)
    /\ files[LastPath] = prev[1].files[LastPath]

C1_Witness ==
  /\ SameCallTwice
  /\ call[1].cfg.cls = "EMA"
  /\ NRows(call[1].quotes) = 2
  /\ ~IsNull(Column(ret[1].out, "EMA")[2])

StaleEntry ==
  /\ Called
  /\ Exists(prev[1].files, LastPath)
  /\ prev[1].files[LastPath].tbl.index # call[1].quotes.index

\* C2: whenever the quote index passed to run differs (appended, removed or
\* reordered rows) from the index of the persisted entry of (unique name,
\* symbol), run computes the algorithm once over the whole series, the
\* returned table is the algorithm's output for the new quotes, its index
\* equals the new quote index, and the file afterwards holds that table.
C2_StaleRecomputes ==
  StaleEntry =>
    /\ ret[1].halt = ""
    /\ Count(ret[1].comp, LastName) = 1
    /\ ret[1].out.index = call[1].quotes.index
    /\ ret[1].out =
         RunnerRun(WrappedRunnerFactory, CallState(prev[1].files, 0, TRUE), call[1].cfg,
                   call[1].symbol, call[1].quotes, <<>>).out
    /\ files[LastPath] = Pickled(ret[1].out)

\* One row appended to the series the entry was computed from.
C2_Witness ==
  /\ StaleEntry
  /\ Len(call[1].quotes.index) = 2
  /\ prev[1].files[LastPath].tbl.index = SubSeq(call[1].quotes.index, 1, 1)
  /\ call[1].cfg.cls = "SMA"
  /\ ~IsNull(Column(ret[1].out, "SMA")[2])

NoEntryFor(fs, symbol) == \A p \in DOMAIN fs : p[2] # symbol

\* C3: when no entry for symbol s exists before a handle's run for s, then
\* after the run a complete entry exists at <unique name>/<s> for the
\* requested indicator and for every indicator it transitively depends on.
C3_DependenciesPersisted ==
  (Called /\ NoEntryFor(prev[1].files, call[1].symbol)) =>
    \A d \in AllDeps(call[1].cfg) :
      /\ Exists(files, get_save_path(d, call[1].symbol))
      /\ files[get_save_path(d, call[1].symbol)].complete

C3_Witness ==
  /\ Called
  /\ NoEntryFor(prev[1].files, call[1].symbol)
  /\ call[1].cfg = EMA("EMA", 2, "Close")
  /\ Exists(files, <<"ema_Close_2", call[1].symbol>>)
  /\ Exists(files, <<"sma_Close_2", call[1].symbol>>)

\* C4 (as claimed): every file of the store is a complete entry, whatever
\* point of a write the process was interrupted at.
C4_FilesComplete == \A p \in DOMAIN files : files[p].complete

\* C5: over the calls made for one symbol while its quote series is
\* unchanged, whichever parents request it and however often, the algorithm
\* of each unique name is computed at most once.
C5_ComputedOnce ==
  \A s \in CacheSymbols :
    streak[s] # <<>> =>
      \A u \in DOMAIN streak[s][1].comp : streak[s][1].comp[u] <= 1

\* EMA and ATRChannel (top = bottom) have both run: SMA(2) was requested by
\* two parents, ATR(1) twice by one, and each was computed once.
C5_Witness ==
  \E s \in CacheSymbols :
    /\ streak[s] # <<>>
    /\ NRows(streak[s][1].quotes) = 2
    /\ {"ema_Close_2", "atr_channel_1_1_2"} \subseteq streak[s][1].parents
    /\ Count(streak[s][1].reqs, "sma_Close_2") = 2
    /\ Count(streak[s][1].comp, "sma_Close_2") = 1
    /\ Count(streak[s][1].reqs, "atr_1") = 2
    /\ Count(streak[s][1].comp, "atr_1") = 1

-----------------------------------------------------------------------------
(***************************************************************************)
(* SpecPlain: one runner of the plain factory, run once on a quote series. *)
(***************************************************************************)
InitPlain ==
  /\ files = <<>>
  /\ \E c \in PlainConfigs, q \in PlainQuotes :
       \E chained \in ChainedOutcomes(c) :
         call = <<[cfg |-> c, symbol |-> "AAA", quotes |-> q, chained |-> chained]>>
  /\ ret = <<>>
  /\ prev = <<>>
  /\ streak = <<>>
  /\ ncalls = 0
  /\ market = <<>>

\* IndicatorRunnerFactory.create(cls, ...).run(symbol, df_quotes)
RunPlain ==
  /\ ncalls = 0
  /\ \E r \in {FactoryRun("plain", CallState(<<>>, 0, call[1].chained), call[1].cfg,
                          call[1].symbol, call[1].quotes)} :
       ret' = <<[halt |-> r.st.halt, out |-> r.out, aux |-> r.aux, comp |-> r.st.comp]>>
  /\ ncalls' = 1
  /\ UNCHANGED <<files, call, prev, streak, market>>

NextPlain == RunPlain

SpecPlain == InitPlain /\ [][NextPlain]_vars

Ran(cls) == ret # <<>> /\ call[1].cfg.cls = cls

\* C7 (as claimed): every table a runner's run returns has a Direction
\* column, whatever the length of the quote series, and each of its values
\* is LONG, SHORT or the no-direction value ''.
C7_DirectionAlways ==
  ret # <<>> =>
    /\ HasColumn(ret[1].out, "Direction")
    /\ \A i \in 1..NRows(ret[1].out) :
         Column(ret[1].out, "Direction")[i] \in {<<LONG>>, <<SHORT>>, <<"">>}

\* 0-based row j of a column of the returned table.
OutCell(name, j) == Column(ret[1].out, name)[j + 1]

\* C8: in the table TrailingStops.run returns, SellStops values on successive
\* rows never decrease and BuyStops values on successive rows never
\* increase; after a row with a SellStop the next row carries a BuyStop
\* exactly when the row's Close <= that SellStop (else a SellStop), and after
\* a row with a BuyStop the next row carries a SellStop exactly when the
\* row's Close >= that BuyStop (else a BuyStop); and in every pass of the
\* loop the regime flips exactly on those comparisons of the next Close with
\* the stop the pass assigns.
C8_Ratchet ==
  Ran("TrailingStops") =>
    LET n     == NRows(call[1].quotes)
        Close == Column(call[1].quotes, "Close")
        T     == ret[1].aux
    IN  /\ \A j \in 0..(n - 2) :
             /\ (~IsNull(OutCell("SellStops", j)) /\ ~IsNull(OutCell("SellStops", j + 1)))
                  => Ge(OutCell("SellStops", j + 1), OutCell("SellStops", j))
             /\ (~IsNull(OutCell("BuyStops", j)) /\ ~IsNull(OutCell("BuyStops", j + 1)))
                  => Le(OutCell("BuyStops", j + 1), OutCell("BuyStops", j))
             /\ ~IsNull(OutCell("SellStops", j)) =>
                  /\ ~IsNull(OutCell("BuyStops", j + 1))
                       <=> Le(Close[j + 1], OutCell("SellStops", j))
                  /\ ~IsNull(OutCell("SellStops", j + 1))
                       <=> Gt(Close[j + 1], OutCell("SellStops", j))
             /\ ~IsNull(OutCell("BuyStops", j)) =>
                  /\ ~IsNull(OutCell("SellStops", j + 1))
                       <=> Ge(Close[j + 1], OutCell("BuyStops", j))
                  /\ ~IsNull(OutCell("BuyStops", j + 1))
                       <=> Lt(Close[j + 1], OutCell("BuyStops", j))
        /\ \A k \in 1..Len(T) :
             /\ (T[k].sign = -1 /\ T[k].after = 1) <=>
                  (T[k].sign = -1 /\ Le(Close[T[k].i + 2], T[k].sell))
             /\ (T[k].sign = 1 /\ T[k].after = -1) <=>
                  (T[k].sign = 1 /\ Ge(Close[T[k].i + 2], T[k].buy))
             /\ k < Len(T) => (T[k + 1].i = T[k].i + 1 /\ T[k + 1].sign = T[k].after)
             /\ call[1].chained =>
                  IF T[k].sign = -1
                  THEN /\ REq(OutCell("SellStops", T[k].i + 1), T[k].sell)
                       /\ IsNull(OutCell("BuyStops", T[k].i + 1))
                  ELSE /\ REq(OutCell("BuyStops", T[k].i + 1), T[k].buy)
                       /\ IsNull(OutCell("SellStops", T[k].i + 1))

\* Two bearish bars on which the SellStop holds against a lower candidate,
\* then a flip to bullish that writes a BuyStop.
C8_Witness ==
  /\ Ran("TrailingStops")
  /\ call[1].chained
  /\ \E k \in 1..(Len(ret[1].aux) - 2) :
       LET T == ret[1].aux
       IN  /\ T[k].sign = -1 /\ T[k + 1].sign = -1 /\ T[k + 2].sign = 1
           /\ Gt(T[k + 1].sell, T[k + 1].sell0)
           /\ ~IsNull(OutCell("BuyStops", T[k + 2].i + 1))

\* The ATR column before round_df and the true ranges, 0-based row t.
RawATR(t) == Iloc(ret[1].aux.raw, t)

TR(t) == Iloc(ret[1].aux.tr, t)

ATRGeneral ==
  LET n == NRows(call[1].quotes)
      p == call[1].cfg.period
  IN  \A t \in 0..(n - 1) :
        /\ t < p => IsNull(RawATR(t))
        /\ t = p => REq(RawATR(t), Mean(PySlice(ret[1].aux.tr, 1, p + 1)))
        /\ t > p => REq(RawATR(t), RDiv(RAdd(RMul(RawATR(t - 1), p - 1), TR(t)), p))
        /\ OutCell("ATR", t) = RoundCell(RawATR(t))

\* C9 (as claimed): ATR is undefined before the row that completes the first
\* window of period true ranges, is their mean at that row, and follows
\* (ATR[t-1]*(period-1) + TR[t]) / period on every later row; and for
\* period = 2, ATR[2] = (ATR[1]*1 + TR[2]) / 2.
C9_AsClaimed ==
  Ran("ATR") =>
    /\ ATRGeneral
    /\ (call[1].cfg.period = 2 /\ NRows(call[1].quotes) >= 3) =>
         /\ ~IsNull(RawATR(1))
         /\ REq(RawATR(2), RDiv(RAdd(RMul(RawATR(1), 1), TR(2)), 2))

\* C9 (amended): the true range is computed from row 1 on, so ATR(period),
\* before the rounding of the returned table, is undefined on rows
\* 0..period-1, is the mean of TR[1..period] at row period, and follows
\* (ATR[t-1]*(period-1) + TR[t]) / period on every later row; the returned
\* column is that value rounded.  For period = 2 the seed is ATR[2] =
\* mean(TR[1], TR[2]) and ATR[3] = (ATR[2]*1 + TR[3]) / 2.
C9_ATRRecurrence ==
  Ran("ATR") =>
    /\ ATRGeneral
    /\ (call[1].cfg.period = 2 /\ NRows(call[1].quotes) >= 3) =>
         /\ IsNull(RawATR(1))
         /\ REq(RawATR(2), RDiv(RAdd(TR(1), TR(2)), 2))
    /\ (call[1].cfg.period = 2 /\ NRows(call[1].quotes) >= 4) =>
         REq(RawATR(3), RDiv(RAdd(RMul(RawATR(2), 1), TR(3)), 2))

\* ATR(2) over five rows: a seed that is not a whole number of quanta and
\* two smoothed rows after it.
C9_Witness ==
  /\ Ran("ATR")
  /\ call[1].cfg.period = 2
  /\ NRows(call[1].quotes) = 5
  /\ ~IsNull(RawATR(4))
  /\ ~REq(RawATR(2), OutCell("ATR", 2))
  /\ ~REq(RawATR(3), RawATR(2))

-----------------------------------------------------------------------------
(***************************************************************************)
(* SpecNames: two runners are constructed and their unique names compared. *)
(* Periods are integers and fields are column names, as everywhere in the  *)
(* repository; the values are chosen so that the digits of one parameter   *)
(* list are also the digits of another (1, 11 and 11, 1).                  *)
(***************************************************************************)
NameParams == {1, 11}

NameFields == {"Close", "Volume"}

Names(default) == {default, "Custom"}

NameConfigs ==
  UNION {
    {STDEV(nm, p, f) : nm \in Names("STDEV"), p \in NameParams, f \in NameFields},
    {EMA(nm, p, f) : nm \in Names("EMA"), p \in NameParams, f \in NameFields},
    {SMA(nm, p, f) : nm \in Names("SMA"), p \in NameParams, f \in NameFields},
    {RSI(nm, p, f) : nm \in Names("RSI"), p \in NameParams, f \in NameFields},
    {ATR(nm, p) : nm \in Names("ATR"), p \in NameParams},
    {Volume(nm, p) : nm \in Names("Volume"), p \in NameParams},
    {ATRChannel(nm, t, b, m) :
       nm \in Names("ATRChannel"), t \in NameParams, b \in NameParams, m \in NameParams},
    {MACD(nm, f, sl, sg) :
       nm \in Names("MACD"), f \in NameParams, sl \in NameParams, sg \in NameParams},
    {TrendStrength(nm, st, en, sp) :
       nm \in Names("TrendStrength"), st \in NameParams, en \in NameParams,
       sp \in NameParams},
    {TrailingStops(nm, m, p) :
       nm \in Names("TrailingStops"), m \in NameParams, p \in NameParams},
    {DonchianChannel(nm, h, l) :
       nm \in Names("DonchianChannel"), h \in NameParams, l \in NameParams},
    {MACross(nm, f, sl) : nm \in Names("MACross"), f \in NameParams, sl \in NameParams},
    {BollingerBand(nm, p, sd) :
       nm \in Names("BollingerBand"), p \in NameParams, sd \in NameParams} }

\* IndicatorRunner.__init__: the runner keeps its name and its unique_name.
IndicatorRunner(c) == [name |-> c.name, unique_name |-> unique_name(c)]

InitNames ==
  /\ files = <<>>
  /\ prev = <<>>
  /\ streak = <<>>
  /\ market = <<>>
  /\ ncalls = 0
  /\ ret = <<>>
  /\ \E c1 \in NameConfigs, c2 \in NameConfigs : call = <<[cfg |-> c1], [cfg |-> c2]>>

Construct ==
  /\ ncalls = 0
  /\ ret' = <<IndicatorRunner(call[1].cfg), IndicatorRunner(call[2].cfg)>>
  /\ ncalls' = 1
  /\ UNCHANGED <<files, call, prev, streak, market>>

NextNames == Construct

SpecNames == InitNames /\ [][NextNames]_vars

Constructed == ret # <<>>

\* The constructor arguments that are parameters of the algorithm: all but name.
Params(c) == [c EXCEPT !.name = ""]

\* C6 (as claimed): two configurations with the same type and parameter
\* values have the same unique_name, and two configurations that differ in
\* type or in any constructor parameter have different unique_names.
C6_AsClaimed ==
  Constructed =>
    ((ret[1].unique_name = ret[2].unique_name) <=> (call[1].cfg = call[2].cfg))

\* C6 (amended): two configurations have the same unique_name exactly when
\* they have the same type and the same constructor arguments other than
\* name (integer periods, column-name fields); the name argument is not
\* part of the unique_name.
C6_UniqueNames ==
  Constructed =>
    ((ret[1].unique_name = ret[2].unique_name)
       <=> (Params(call[1].cfg) = Params(call[2].cfg)))

\* Two MACD runners whose parameter lists have the same digits in the same
\* order, grouped differently, get different unique names.
C6_Witness ==
  /\ Constructed
  /\ call[1].cfg.cls = "MACD" /\ call[2].cfg.cls = "MACD"
  /\ call[1].cfg.fast = 1 /\ call[1].cfg.slow = 11
  /\ call[2].cfg.fast = 11 /\ call[2].cfg.slow = 1
  /\ call[1].cfg.signal = call[2].cfg.signal
  /\ ret[1].unique_name # ret[2].unique_name

-----------------------------------------------------------------------------
(***************************************************************************)
(* SpecAgg: PickleIndicatorFactory.create over a market of two symbols     *)
(* whose quote series cover any dates of Dates, in date order.  The store  *)
(* starts empty; every symbol's run goes through the pickle wrapper.       *)
(***************************************************************************)
MarketSymbols == <<"AAA", "BBB">>

SortedIndexes ==
  {ix \in SeqsUpTo(Dates, Cardinality(Dates)) :
     \A i \in 1..(Len(ix) - 1) : ix[i] < ix[i + 1]}

AggConfigs == {SMA("SMA", 1, "Close"), SMA("SMA", 2, "Close"), EMA("EMA", 2, "Close")}

\* Market.get_symbols() and Market.get_quotes(symbol=...)
get_symbols(m) == [k \in 1..Len(m) |-> m[k].symbol]

get_quotes(m, symbol) == m[CHOOSE k \in 1..Len(m) : m[k].symbol = symbol].quotes

InSeq(x, seq) == \E i \in 1..Len(seq) : seq[i] = x

\* df_values[symbol] = series.  A frame without rows takes the index of a
\* series that has some; otherwise the series is aligned to the frame's
\* index: labels the frame lacks are dropped, labels the series lacks are NaN.
InsertSeries(t, symbol, index, cells) ==
  IF NRows(t) = 0 /\ Len(index) > 0
  THEN SetColumn(Table(index, [i \in 1..Len(t.cols) |-> <<t.cols[i][1], AllNaN(Len(index))>>]),
                 symbol, cells)
  ELSE SetColumn(t, symbol,
                 [i \in 1..NRows(t) |->
                    IF InSeq(t.index[i], index)
                    THEN cells[PosOf(index, t.index[i])] ELSE NaN])

\* indicator.get_attribute(col) or Attribute(pd.DataFrame())
get_attribute(attributes, col) ==
  IF col \in DOMAIN attributes THEN attributes[col] ELSE NoTable

SetAttribute(attributes, col, t) ==
  [k \in DOMAIN attributes \cup {col} |-> IF k = col THEN t ELSE attributes[k]]

\* The loop over df.columns for one symbol's result.
RECURSIVE InsertColumns(_, _, _, _)
InsertColumns(attributes, symbol, df, i) ==
  IF i > Len(df.cols) THEN attributes
  ELSE LET col == df.cols[i][1]
       IN  InsertColumns(SetAttribute(attributes, col,
                           InsertSeries(get_attribute(attributes, col), symbol,
                                        df.index, df.cols[i][2])),
                         symbol, df, i + 1)

\* The loop over the market's symbols, from the k-th on.
RECURSIVE CreateLoop(_, _, _, _, _, _)
CreateLoop(fs, attributes, results, c, m, k) ==
  IF k > Len(m) THEN [files |-> fs, attributes |-> attributes, results |-> results]
  ELSE The({CreateLoop(r.st.files,
                       InsertColumns(attributes, get_symbols(m)[k], r.out, 1),
                       Append(results, r.out), c, m, k + 1) :
              r \in {Wrapper_run(CallState(fs, 0, TRUE), c, get_symbols(m)[k],
                                 get_quotes(m, get_symbols(m)[k]), <<>>)}})

InitAgg ==
  /\ files = <<>>
  /\ call = <<>>
  /\ ret = <<>>
  /\ prev = <<>>
  /\ streak = <<>>
  /\ ncalls = 0
  /\ \E ixs \in [1..Len(MarketSymbols) -> SortedIndexes] :
       market = [k \in 1..Len(MarketSymbols) |->
                   [symbol |-> MarketSymbols[k], quotes |-> QuotesOf(ixs[k])]]

Create(c) ==
  /\ ncalls = 0
  /\ \E r \in {CreateLoop(files, <<>>, <<>>, c, market, 1)} :
       /\ files' = r.files
       /\ ret' = <<[name |-> unique_name(c), attributes |-> r.attributes,
                    results |-> r.results]>>
  /\ call' = <<[cfg |-> c]>>
  /\ ncalls' = 1
  /\ UNCHANGED <<prev, streak, market>>

NextAgg == \E c \in AggConfigs : Create(c)

SpecAgg == InitAgg /\ [][NextAgg]_vars

\* The cell of symbol k's own result for column col at date d, if any.
OwnHas(k, col, d) ==
  /\ HasColumn(ret[1].results[k], col)
  /\ InSeq(d, ret[1].results[k].index)

OwnCell(k, col, d) ==
  Column(ret[1].results[k], col)[PosOf(ret[1].results[k].index, d)]

AttrHas(k, col, d) ==
  /\ col \in DOMAIN ret[1].attributes
  /\ HasColumn(ret[1].attributes[col], MarketSymbols[k])
  /\ InSeq(d, ret[1].attributes[col].index)

AttrCell(k, col, d) ==
  Column(ret[1].attributes[col], MarketSymbols[k])
    [PosOf(ret[1].attributes[col].index, d)]

\* C10 (as claimed): after create, for every output column, symbol and
\* date, the column's cross-symbol table has a value at (date, symbol)
\* exactly when the date is in the symbol's own result for the column, and
\* the value is the symbol's own; no date of a later symbol is dropped and
\* no symbol is aligned to another symbol's dates.
C10_Sparsity ==
  ret # <<>> =>
    \A k \in 1..Len(MarketSymbols), col \in {"SMA", "EMA", "Direction"}, d \in Dates :
      /\ OwnHas(k, col, d) =>
           (AttrHas(k, col, d) /\ AttrCell(k, col, d) = OwnCell(k, col, d))
      /\ (AttrHas(k, col, d) /\ ~IsNull(AttrCell(k, col, d))) => OwnHas(k, col, d)

-----------------------------------------------------------------------------
(***************************************************************************)
(* SpecComposite: one run of a composite runner obtained from the plain    *)
(* factory, over any quote series of up to MaxBars bars.                   *)
(***************************************************************************)
CompositeConfigs ==
  { ATRChannel("ATRChannel", 2, 1, 2),
    TrailingStops("TrailingStops", 1, 2),
    MACD("MACD", 1, 2, 1), MACD("MACD", 1, 2, 2), MACD("MACD", 2, 3, 2),
    MACross("MACross", 1, 2), MACross("MACross", 2, 3),
    TrendStrength("TrendStrength", 1, 3, 1), TrendStrength("TrendStrength", 2, 3, 1) }

InitComposite ==
  /\ files = <<>>
  /\ prev = <<>>
  /\ streak = <<>>
  /\ market = <<>>
  /\ ncalls = 0
  /\ ret = <<>>
  /\ \E c \in CompositeConfigs, q \in PlainQuotes :
       \E chained \in ChainedOutcomes(c) :
         call = <<[cfg |-> c, symbol |-> "AAA", quotes |-> q, chained |-> chained]>>

NextComposite == RunPlain

SpecComposite == InitComposite /\ [][NextComposite]_vars

Rows == 1..NRows(call[1].quotes)

Out(name) == Column(ret[1].out, name)

\* TrendStrength is no value on the rows where one of its SMAs is.
NoValue_TrendStrength ==
  Ran("TrendStrength") =>
    \A i \in Rows :
      (\E k \in 1..Len(TrendStrength_columns(call[1].cfg)) :
         IsNull(Out(SMAName(TrendStrength_columns(call[1].cfg)[k]))[i]))
        => IsNull(Out("TrendStrength")[i])

\* The crossover columns of MACross are no value where one of its SMAs is.
NoValue_MACross ==
  Ran("MACross") =>
    \A i \in Rows :
      (IsNull(Out("FastSMA")[i]) \/ IsNull(Out("SlowSMA")[i]))
        => (IsNull(Out("SlowCrossoverFast")[i]) /\ IsNull(Out("FastCrossoverSlow")[i]))

\* Signal and the crossover columns of MACD are no value where the MACD
\* line (the difference of its two EMAs) is, and the crossover columns
\* where Signal is.
NoValue_MACD ==
  Ran("MACD") =>
    \A i \in Rows :
      /\ IsNull(Out("MACD")[i]) => IsNull(Out("Signal")[i])
      /\ (IsNull(Out("MACD")[i]) \/ IsNull(Out("Signal")[i]))
           => (IsNull(Out("MACDCrossoverSignal")[i]) /\ IsNull(Out("SignalCrossoverMACD")[i]))

\* Top and Bottom of ATRChannel are no value where Mid (its SMA) is.
NoValue_ATRChannel ==
  Ran("ATRChannel") =>
    \A i \in Rows : IsNull(Out("Mid")[i]) => (IsNull(Out("Top")[i]) /\ IsNull(Out("Bottom")[i]))

\* The stops of TrailingStops on the row after one whose ATR is no value
\* (a row the loop passes over) are no value.
NoValue_TrailingStops ==
  Ran("TrailingStops") =>
    \A i \in Rows :
      (i < NRows(call[1].quotes) /\ \A k \in 1..Len(ret[1].aux) : ret[1].aux[k].i # i - 1)
        => (IsNull(Out("SellStops")[i + 1]) /\ IsNull(Out("BuyStops")[i + 1]))

\* C11 (as claimed): for every composite indicator and every row at which
\* an output of one of its dependencies is "no value", each numeric output
\* column computed from that dependency is "no value" at that row, never
\* zero or another number.
C11_NoValuePropagates ==
  /\ NoValue_TrendStrength
  /\ NoValue_MACross
  /\ NoValue_MACD
  /\ NoValue_ATRChannel
  /\ NoValue_TrailingStops

-----------------------------------------------------------------------------
(***************************************************************************)
(* SpecShared: handles of the caching factory run one after another        *)
(* against one store, for one symbol.  The quote series are those of       *)
(* CacheQuotes taken in date order, where a date always carries the same   *)
(* bar, and the series of PlainQuotes, where the bar of a date may have    *)
(* been revised between two runs.                                          *)
(***************************************************************************)
SharedConfigs ==
  { SMA("SMA", 2, "Close"), EMA("EMA", 2, "Close"),
    MACD("MACD", 1, 2, 1), MACD("MACD", 1, 3, 1) }

SharedQuotes ==
  {QuotesOf(ix) : ix \in {jx \in SortedIndexes : Len(jx) <= MaxLen}}
    \cup {q \in PlainQuotes : NRows(q) <= MaxLen}

RunShared == \E c \in SharedConfigs, q \in SharedQuotes : HandleRun(c, "AAA", q, 0)

NextShared == RunShared

SpecShared == Init /\ [][NextShared]_vars

\* What the handle of the plain factory returns for the last call's input.
PlainOut ==
  RunnerRun("plain", CallState(<<>>, 0, TRUE), call[1].cfg, call[1].symbol,
            call[1].quotes, <<>>).out

\* C12 (as claimed): after any sequence of earlier runs under the same cache
\* root, the table the caching factory's handle returns equals the table
\* the plain factory's handle returns for the same input; a persisted entry
\* is never reused for an input whose values differ from those it was
\* computed from.
C12_CacheTransparent ==
  (Called /\ ret[1].halt = "") => ret[1].out = PlainOut

====
